---------------------------- MODULE Spec2Model ----------------------------
(***************************************************************************)
(* Smart EV charging station simulation (src/test2.py).                    *)
(*                                                                         *)
(* The charging engine simulate_charging is modelled one loop iteration    *)
(* per step; the Streamlit entry point main and the profile generator      *)
(* generate_simulation_data are modelled on a shortened day.               *)
(*                                                                         *)
(* Python floats are modelled as exact rationals <<n, d>> with d > 0 in    *)
(* lowest terms: every arithmetic step of the source (product, quotient,   *)
(* sum, difference, min, max) is carried out exactly; rounding error is    *)
(* not modelled.                                                           *)
(***************************************************************************)
EXTENDS Integers, Sequences, FiniteSets, TLC

VARIABLES
    data,              \* the series handed to simulate_charging: Seq of samples
    battery_capacity,  \* kWh, rational
    initial_soc,       \* fraction in [0,1], rational
    max_power,         \* kW, rational
    step_limit,        \* <<>> for None, <<k>> for the integer k
    soc,               \* local soc of simulate_charging
    soc_raw,           \* soc after line 56, before the cap of line 57
    energy_needed,     \* local energy_needed
    charging_power,    \* list charging_power
    soc_values,        \* list soc_values (percent)
    time_steps,        \* local time_steps (the effective horizon)
    i,                 \* loop index of the for loop of line 41
    completion_idx,    \* local completion_idx, -1 while not computed
    completion_time,   \* local completion_time, -1 while not computed
    pc,                \* position inside simulate_charging / main
    prev_run,          \* result of the previous call on the same series
    rng_state,         \* state of numpy's global generator
    gen_log,           \* the series returned by the last two generate calls
    step               \* loop variable step of main

vars == <<data, battery_capacity, initial_soc, max_power, step_limit, soc,
          soc_raw, energy_needed, charging_power, soc_values, time_steps, i,
          completion_idx, completion_time, pc, prev_run, rng_state, gen_log,
          step>>

---------------------------------------------------------------------------
(* Exact rational arithmetic standing for Python float arithmetic.         *)

Abs(x) == IF x < 0 THEN -x ELSE x

RECURSIVE GCD(_, _)
GCD(a, b) == IF b = 0 THEN a ELSE GCD(b, a % b)

Norm(n, d) ==
    LET g == GCD(Abs(n), d)
    IN  IF n = 0 THEN <<0, 1>> ELSE <<n \div g, d \div g>>

R(n) == <<n, 1>>
Frac(n, d) == Norm(n, d)

RAdd(a, b) == Norm(a[1] * b[2] + b[1] * a[2], a[2] * b[2])
RSub(a, b) == Norm(a[1] * b[2] - b[1] * a[2], a[2] * b[2])
RMul(a, b) == Norm(a[1] * b[1], a[2] * b[2])
\* a / b for b > 0
RDiv(a, b) == Norm(a[1] * b[2], a[2] * b[1])
RLe(a, b) == a[1] * b[2] <= b[1] * a[2]
RLt(a, b) == a[1] * b[2] < b[1] * a[2]
RMin(a, b) == IF RLe(a, b) THEN a ELSE b
RMax(a, b) == IF RLe(b, a) THEN a ELSE b

---------------------------------------------------------------------------
(* Bounds of the model.                                                    *)

\* longest series handed to simulate_charging
MaxLen == 3

\* the input values the parameters are drawn from
Capacities == {Frac(1, 10), Frac(1, 2), R(100)}
InitialSocs == {R(0), Frac(1, 2), Frac(499, 500), R(1)}
MaxPowers == {R(3), R(6), R(22)}
StepLimits == {<<>>} \cup {<<k>> : k \in -1..MaxLen}

\* the samples a series is made of: timestamp (minutes since 00:00), grid
\* load and solar production; 20:00 with solar above 5, 18:00 with solar 5,
\* 22:59 and 23:00 without solar
Samples ==
    { [Time |-> 1200, Grid_Load_kW |-> R(15), Solar_Prod_kW |-> Frac(11, 2)],
      [Time |-> 1080, Grid_Load_kW |-> R(15), Solar_Prod_kW |-> R(5)],
      [Time |-> 1379, Grid_Load_kW |-> R(15), Solar_Prod_kW |-> R(0)],
      [Time |-> 1380, Grid_Load_kW |-> R(5), Solar_Prod_kW |-> R(0)] }

SeriesSet == UNION {[1..n -> Samples] : n \in 1..MaxLen}

NoRun == [max_power |-> R(0), completion_idx |-> -1]

---------------------------------------------------------------------------
(* simulate_charging                                                       *)

\* the clamp to at least one step left out
TimeStepsNoClamp(d, sl) ==
    IF sl = <<>> THEN Len(d)
    ELSE IF sl[1] < Len(d) THEN sl[1] ELSE Len(d)

\* line 36: len(data) if step_limit is None else max(1, min(step_limit, len(data)))
TimeSteps(d, sl) ==
    IF sl = <<>> THEN Len(d)
    ELSE LET m == IF sl[1] < Len(d) THEN sl[1] ELSE Len(d)
         IN  IF m > 1 THEN m ELSE 1

\* line 44: data["Time"].iloc[i].hour
Hour(t) == (t \div 60) % 24

\* the remaining minutes left out: the power that finishes within one minute
DemandCapNoHorizon(en, ts, k) == RMul(en, R(60))

\* energy_needed * 60 / (time_steps - i)
DemandCap(en, ts, k) == RDiv(RMul(en, R(60)), R(ts - k))

\* the solar rule without the hardware limit
PowerNoHardwareLimit(sample, mp, en, ts, k) ==
    IF RLt(R(5), sample.Solar_Prod_kW)
    THEN RMin(sample.Solar_Prod_kW, DemandCap(en, ts, k))
    ELSE IF 18 <= Hour(sample.Time) /\ Hour(sample.Time) <= 22
         THEN RMin(RMin(R(5), mp), DemandCap(en, ts, k))
         ELSE RMin(mp, DemandCap(en, ts, k))

\* the peak window closed at 22:00 instead of 22:59
PowerPeakExclusive(sample, mp, en, ts, k) ==
    IF RLt(R(5), sample.Solar_Prod_kW)
    THEN RMin(RMin(sample.Solar_Prod_kW, mp), DemandCap(en, ts, k))
    ELSE IF 18 <= Hour(sample.Time) /\ Hour(sample.Time) < 22
         THEN RMin(RMin(R(5), mp), DemandCap(en, ts, k))
         ELSE RMin(mp, DemandCap(en, ts, k))

\* the off-peak rule without the demand cap
PowerNoDemandCap(sample, mp, en, ts, k) ==
    IF RLt(R(5), sample.Solar_Prod_kW)
    THEN RMin(RMin(sample.Solar_Prod_kW, mp), DemandCap(en, ts, k))
    ELSE IF 18 <= Hour(sample.Time) /\ Hour(sample.Time) <= 22
         THEN RMin(RMin(R(5), mp), DemandCap(en, ts, k))
         ELSE mp

\* lines 47-52: the three rules
Power(sample, mp, en, ts, k) ==
    IF RLt(R(5), sample.Solar_Prod_kW)
    THEN RMin(RMin(sample.Solar_Prod_kW, mp), DemandCap(en, ts, k))
    ELSE IF 18 <= Hour(sample.Time) /\ Hour(sample.Time) <= 22
         THEN RMin(RMin(R(5), mp), DemandCap(en, ts, k))
         ELSE RMin(mp, DemandCap(en, ts, k))

\* lines 55-56: soc + power * (1/60) / battery_capacity
SocAfter(s, power, cap) == RAdd(s, RDiv(RMul(power, Frac(1, 60)), cap))

\* line 57
CapSoc(s) == RMin(s, R(1))

\* line 58
EnergyNeeded(cap, s) == RMax(R(0), RMul(cap, RSub(R(1), s)))

\* lines 32-36: the locals on entry
Enter(d, cap, s0, mp, sl) ==
    /\ data' = d
    /\ battery_capacity' = cap
    /\ initial_soc' = s0
    /\ max_power' = mp
    /\ step_limit' = sl
    /\ soc' = s0
    /\ soc_raw' = s0
    /\ energy_needed' = RMul(cap, RSub(R(1), s0))
    /\ charging_power' = <<>>
    /\ soc_values' = <<>>
    /\ time_steps' = TimeSteps(d, sl)
    /\ i' = 0
    /\ completion_idx' = -1
    /\ completion_time' = -1
    /\ pc' = "loop"

\* lines 41-61: one iteration of the for loop (index i, 0-based)
Step ==
    /\ pc = "loop"
    /\ i < time_steps
    /\ LET power == Power(data[i + 1], max_power, energy_needed, time_steps, i)
           raw == SocAfter(soc, power, battery_capacity)
           capped == CapSoc(raw)
       IN  /\ soc_raw' = raw
           /\ soc' = capped
           /\ energy_needed' = EnergyNeeded(battery_capacity, capped)
           /\ charging_power' = Append(charging_power, power)
           /\ soc_values' = Append(soc_values, RMul(capped, R(100)))
    /\ i' = i + 1
    /\ UNCHANGED <<data, battery_capacity, initial_soc, max_power, step_limit,
                   time_steps, completion_idx, completion_time, pc, prev_run,
                   rng_state, gen_log, step>>

\* the tail padded with the last power instead of zero
PadPowerLast(cp, ts, n) ==
    IF ts < n
    THEN cp \o [k \in 1..(n - ts) |-> IF cp # <<>> THEN cp[Len(cp)] ELSE R(0)]
    ELSE cp

\* the tail padded with the initial SoC instead of the last simulated one
PadSocInitial(sv, s0, ts, n) ==
    IF ts < n THEN sv \o [k \in 1..(n - ts) |-> RMul(s0, R(100))] ELSE sv

\* lines 64-66: pad with zeros / the last value
PadPower(cp, ts, n) ==
    IF ts < n THEN cp \o [k \in 1..(n - ts) |-> R(0)] ELSE cp

PadSoc(sv, s0, ts, n) ==
    IF ts < n
    THEN sv \o [k \in 1..(n - ts) |->
                  IF sv # <<>> THEN sv[Len(sv)] ELSE RMul(s0, R(100))]
    ELSE sv

\* the fallback 0 instead of the last index
CompletionIdxDefaultZero(sv, n) ==
    LET hit == {k \in 1..Len(sv) : RLe(Frac(999, 10), sv[k])}
    IN  IF hit = {} THEN 0
        ELSE (CHOOSE k \in hit : \A m \in hit : k <= m) - 1

\* the threshold compared with > instead of >=
CompletionIdxStrict(sv, n) ==
    LET hit == {k \in 1..Len(sv) : RLt(Frac(999, 10), sv[k])}
    IN  IF hit = {} THEN n - 1
        ELSE (CHOOSE k \in hit : \A m \in hit : k <= m) - 1

\* line 72: next((i for i, soc in enumerate(soc_values) if soc >= 99.9), len(data) - 1)
CompletionIdx(sv, n) ==
    LET hit == {k \in 1..Len(sv) : RLe(Frac(999, 10), sv[k])}
    IN  IF hit = {} THEN n - 1
        ELSE (CHOOSE k \in hit : \A m \in hit : k <= m) - 1

\* lines 63-75: the loop is over; pad, store the columns, find the completion
Finish ==
    /\ pc = "loop"
    /\ i >= time_steps
    /\ charging_power' = PadPower(charging_power, time_steps, Len(data))
    /\ soc_values' = PadSoc(soc_values, initial_soc, time_steps, Len(data))
    /\ completion_idx' = CompletionIdx(soc_values', Len(data))
    /\ completion_time' = data[completion_idx' + 1].Time
    /\ pc' = "done"
    /\ UNCHANGED <<data, battery_capacity, initial_soc, max_power, step_limit,
                   soc, soc_raw, energy_needed, time_steps, i, prev_run,
                   rng_state, gen_log, step>>

\* a second call on the same series, capacity, initial SoC and step limit
\* with at least as much power
Rerun ==
    /\ pc = "done"
    /\ \E mp \in MaxPowers :
          /\ RLe(max_power, mp)
          /\ Enter(data, battery_capacity, initial_soc, mp, step_limit)
    /\ prev_run' = [max_power |-> max_power, completion_idx |-> completion_idx]
    /\ UNCHANGED <<rng_state, gen_log, step>>

---------------------------------------------------------------------------
(* generate_simulation_data and main, on a day of DaySteps samples.        *)

\* samples of the generated day (time_steps = 1440 in the source)
DaySteps == 6
\* samples added per rendering pass (step_size = 60 in the source)
StepSize == 2

\* np.random.seed(42)
Seed == 42

\* the slider values main passes on
SliderCapacities == {Frac(1, 10), R(100)}
SliderSocs == {R(0), Frac(1, 2)}
SliderPowers == {R(3), R(6), R(22)}

\* numpy's global generator, stood in for by a linear congruential
\* generator: every draw advances the state, the value drawn is a function
\* of the state
RngNext(s) == (s * 75 + 74) % 65537
RngValue(s) == ((s \div 7) % 3) - 1

\* np.random.normal(0, sigma, n): n successive draws from the global state
RECURSIVE Normal(_, _)
Normal(s, n) ==
    IF n = 0 THEN [values |-> <<>>, state |-> s]
    ELSE LET rest == Normal(RngNext(s), n - 1)
         IN  [values |-> <<RngValue(s)>> \o rest.values, state |-> rest.state]

\* time_steps = 1440  # 24 hours * 60 minutes
MinutesPerDay == 1440

\* line 14: the k-th timestamp (0-based), the day spread over DaySteps samples
TimeIndex(k) == k * (MinutesPerDay \div DaySteps)

\* 10 * sin(2 pi h / 24), to the nearest integer
SineTable == <<0, 3, 5, 7, 9, 10, 10, 10, 9, 7, 5, 3,
               0, -3, -5, -7, -9, -10, -10, -10, -9, -7, -5, -3>>

\* 15 * exp(-(h - 12)^2 / 8), to the nearest integer
BellTable == <<0, 0, 0, 0, 0, 0, 0, 1, 2, 5, 9, 13,
               15, 13, 9, 5, 2, 1, 0, 0, 0, 0, 0, 0>>

\* lines 17-18: base 5 plus sine plus noise, plus 10 from 18:00 to 22:00
GridLoad(k, noise) ==
    LET t == TimeIndex(k)
    IN  R(5 + SineTable[Hour(t) + 1] + noise
            + (IF 1080 <= t /\ t < 1320 THEN 10 ELSE 0))

\* lines 21-22: bell curve plus noise (sigma 0.5), clipped at 0
SolarProd(k, noise) ==
    RMax(R(0), RAdd(R(BellTable[Hour(TimeIndex(k)) + 1]), Frac(noise, 2)))

\* lines 12-28: the frame returned and the generator state left behind
GenerateSimulationData(s) ==
    LET g == Normal(s, DaySteps)
        p == Normal(g.state, DaySteps)
    IN  [frame |-> [k \in 1..DaySteps |->
                      [Time |-> TimeIndex(k - 1),
                       Grid_Load_kW |-> GridLoad(k - 1, g.values[k]),
                       Solar_Prod_kW |-> SolarProd(k - 1, p.values[k])]],
         state |-> p.state]

\* the frames returned by the last two calls
Logged(log, frame) ==
    IF log = <<>> THEN <<frame>> ELSE <<log[Len(log)], frame>>

\* lines 102-117: the button is pressed, data = generate_simulation_data()
RunSimulation ==
    /\ pc = "idle"
    /\ LET gen == GenerateSimulationData(rng_state)
       IN  /\ rng_state' = gen.state
           /\ gen_log' = Logged(gen_log, gen.frame)
    /\ step' = StepSize
    /\ pc' = "render"
    /\ UNCHANGED <<data, battery_capacity, initial_soc, max_power, step_limit,
                   soc, soc_raw, energy_needed, charging_power, soc_values,
                   time_steps, i, completion_idx, completion_time, prev_run>>

\* lines 122-130: one pass of the rendering loop up to the call
RenderPass ==
    /\ pc = "render"
    /\ step < DaySteps + StepSize
    /\ LET current_step == IF step < DaySteps THEN step ELSE DaySteps
           gen == GenerateSimulationData(rng_state)
       IN  /\ rng_state' = gen.state
           /\ gen_log' = Logged(gen_log, gen.frame)
           /\ Enter(gen.frame, battery_capacity, initial_soc, max_power,
                    <<current_step>>)
    /\ UNCHANGED <<prev_run, step>>

\* lines 132-167: plots and metrics, then break when charged, else next step
AfterRun ==
    /\ pc = "done"
    /\ LET current_step == IF step < DaySteps THEN step ELSE DaySteps
       IN  IF RLe(Frac(999, 10), soc_values[current_step])
           THEN pc' = "end" /\ step' = step
           ELSE /\ step' = step + StepSize
                /\ pc' = IF step' < DaySteps + StepSize THEN "render" ELSE "end"
    /\ UNCHANGED <<data, battery_capacity, initial_soc, max_power, step_limit,
                   soc, soc_raw, energy_needed, charging_power, soc_values,
                   time_steps, i, completion_idx, completion_time, prev_run,
                   rng_state, gen_log>>

\* the script has run to line 99: seed set, sliders read, button not pressed
InitMain ==
    /\ data = <<>>
    /\ battery_capacity \in SliderCapacities
    /\ initial_soc \in SliderSocs
    /\ max_power \in SliderPowers
    /\ step_limit = <<>>
    /\ soc = initial_soc
    /\ soc_raw = initial_soc
    /\ energy_needed = R(0)
    /\ charging_power = <<>>
    /\ soc_values = <<>>
    /\ time_steps = 0
    /\ i = 0
    /\ completion_idx = -1
    /\ completion_time = -1
    /\ pc = "idle"
    /\ prev_run = NoRun
    /\ rng_state = Seed
    /\ gen_log = <<>>
    /\ step = 0

NextMain == RunSimulation \/ RenderPass \/ Step \/ Finish \/ AfterRun

SpecMain == InitMain /\ [][NextMain]_vars


Init ==
    /\ data \in SeriesSet
    /\ battery_capacity \in Capacities
    /\ initial_soc \in InitialSocs
    /\ max_power \in MaxPowers
    /\ step_limit \in StepLimits
    /\ soc = initial_soc
    /\ soc_raw = initial_soc
    /\ energy_needed = RMul(battery_capacity, RSub(R(1), initial_soc))
    /\ charging_power = <<>>
    /\ soc_values = <<>>
    /\ time_steps = TimeSteps(data, step_limit)
    /\ i = 0
    /\ completion_idx = -1
    /\ completion_time = -1
    /\ pc = "loop"
    /\ prev_run = NoRun
    /\ rng_state = Seed
    /\ gen_log = <<>>
    /\ step = 0

Next == Step \/ Finish \/ Rerun

Spec == Init /\ [][Next]_vars

---------------------------------------------------------------------------
(* Properties.                                                             *)

\* indices (1-based) of the recorded SoC values at or above 99.9 percent
Reached == {k \in 1..Len(soc_values) : RLe(Frac(999, 10), soc_values[k])}

\* soc on entry to the k-th simulated step (1-based)
SocBefore(k) == IF k = 1 THEN initial_soc ELSE RDiv(soc_values[k - 1], R(100))

\* C1: the recorded SoC sequence never decreases from one index to the
\* next, over simulated and padded steps alike.
MonotonicSoc ==
    \A k \in 1..(Len(soc_values) - 1) : RLe(soc_values[k], soc_values[k + 1])

MonotonicSocWitness ==
    /\ pc = "done"
    /\ 2 <= time_steps
    /\ time_steps < Len(data)
    /\ RLt(soc_values[1], soc_values[2])
    /\ soc_values[Len(data)] = soc_values[time_steps]

\* C2: every recorded charging power lies between 0 and max_power.
PowerBounds ==
    \A k \in 1..Len(charging_power) :
        RLe(R(0), charging_power[k]) /\ RLe(charging_power[k], max_power)

PowerBoundsWitness ==
    /\ pc = "done"
    /\ time_steps < Len(data)
    /\ RLt(max_power, data[1].Solar_Prod_kW)
    /\ charging_power[1] = max_power
    /\ charging_power[Len(data)] = R(0)

\* C3: a step whose sample has hour of day in 18..22 and solar production
\* at most 5 is charged with at most 5 kW.
LoadShedding ==
    \A k \in 1..Len(charging_power) :
        (/\ 18 <= Hour(data[k].Time)
         /\ Hour(data[k].Time) <= 22
         /\ RLe(data[k].Solar_Prod_kW, R(5)))
        => RLe(charging_power[k], R(5))

LoadSheddingWitness ==
    \E k \in 1..Len(charging_power) :
        /\ Hour(data[k].Time) = 22
        /\ RLe(data[k].Solar_Prod_kW, R(5))
        /\ RLt(R(5), max_power)
        /\ charging_power[k] = R(5)

\* C4: a second run on the same series, capacity, initial SoC and step
\* limit with at least as much max_power completes at an index no later
\* than the first run's.
MonotoneCompletion ==
    (pc = "done" /\ prev_run # NoRun)
    => completion_idx <= prev_run.completion_idx

MonotoneCompletionWitness ==
    /\ pc = "done"
    /\ prev_run # NoRun
    /\ RLt(prev_run.max_power, max_power)
    /\ completion_idx < prev_run.completion_idx

\* C5: two successive calls of generate_simulation_data return the same
\* series.
GenerateDeterministic ==
    Len(gen_log) = 2 => gen_log[1] = gen_log[2]

\* C6 as stated: the completion index is the first index at or above 99.9,
\* and it is the last index exactly when no index reaches 99.9.
CompletionLastExactlyWhenNeverReached ==
    pc = "done" =>
        /\ Reached # {} =>
              /\ completion_idx + 1 \in Reached
              /\ \A k \in Reached : completion_idx + 1 <= k
        /\ completion_idx = Len(data) - 1 <=> Reached = {}

\* C6 amended: the completion index is the first index at or above 99.9,
\* it is the last index exactly when no index before the last reaches 99.9,
\* and the completion time is the timestamp at the completion index.
CompletionFirstReached ==
    pc = "done" =>
        /\ Reached # {} =>
              /\ completion_idx + 1 \in Reached
              /\ \A k \in Reached : completion_idx + 1 <= k
        /\ completion_idx = Len(data) - 1
              <=> Reached \cap 1..(Len(data) - 1) = {}
        /\ completion_time = data[completion_idx + 1].Time

CompletionFirstReachedWitness ==
    /\ pc = "done"
    /\ 0 < completion_idx
    /\ completion_idx < Len(data) - 1
    /\ RLt(soc_values[completion_idx], Frac(999, 10))

\* C7: with a step limit k, 1 <= k < len(data), the output has the length
\* of the series and every index from k on holds power 0 and the SoC of
\* index k - 1.
Padding ==
    (pc = "done" /\ step_limit # <<>>
        /\ 1 <= step_limit[1] /\ step_limit[1] < Len(data))
    => /\ Len(charging_power) = Len(data)
       /\ Len(soc_values) = Len(data)
       /\ \A k \in (step_limit[1] + 1)..Len(data) :
            /\ charging_power[k] = R(0)
            /\ soc_values[k] = soc_values[step_limit[1]]

PaddingWitness ==
    /\ pc = "done"
    /\ step_limit = <<1>>
    /\ Len(data) >= 3
    /\ RLt(R(0), charging_power[1])
    /\ RLt(RMul(initial_soc, R(100)), soc_values[1])

\* C8: a run started at initial_soc = 1 records power 0 and SoC 100 at
\* every index and completes at index 0.
FullCharge ==
    initial_soc = R(1) =>
        /\ \A k \in 1..Len(charging_power) : charging_power[k] = R(0)
        /\ \A k \in 1..Len(soc_values) : soc_values[k] = R(100)
        /\ pc = "done" => completion_idx = 0

FullChargeWitness ==
    /\ pc = "done"
    /\ initial_soc = R(1)
    /\ 2 <= time_steps
    /\ time_steps < Len(data)
    /\ max_power = R(22)

\* C9: a step limit of 0 or below gives an effective horizon of 1 and
\* exactly one simulated step; the effective horizon always lies in
\* 1..len(data), and the divisor time_steps - i of a step about to run is
\* at least 1.
DegenerateHorizon ==
    /\ (step_limit # <<>> /\ step_limit[1] <= 0) =>
          /\ time_steps = 1
          /\ pc = "done" => i = 1
    /\ 1 <= time_steps
    /\ time_steps <= Len(data)
    /\ (pc = "loop" /\ i < time_steps) => time_steps - i >= 1

DegenerateHorizonWitness ==
    /\ pc = "done"
    /\ step_limit = <<-1>>
    /\ Len(data) >= 2
    /\ i = 1
    /\ RLt(R(0), charging_power[1])

===========================================================================
